---- MODULE Spec2Model ----
(***************************************************************************)
(* Model of the DEV.to news service and of its MongoDB telemetry adapters  *)
(* (app/telemetry.py, app/main.py).                                        *)
(*                                                                         *)
(* Every handler is one action.  What a handler did is recorded in `last`: *)
(* its inputs, the ordered list of side effects it performed (`events`),   *)
(* its result and the exception that left it, if any.                      *)
(*                                                                         *)
(* Library behaviour the model relies on:                                  *)
(*  - pymongo.MongoClient(...) connects lazily: constructing it performs   *)
(*    no server round trip; it raises a PyMongoError only for a            *)
(*    configuration problem (malformed URI, failed SRV lookup).            *)
(*  - insert_one / insert_many select a server first (PyMongoError when    *)
(*    that or the write fails) and then BSON-encode the documents; a value *)
(*    BSON cannot encode (an exception object) raises                      *)
(*    bson.errors.InvalidDocument, which is not a PyMongoError.            *)
(*  - logging.Logger calls every handler of the root logger and lets an    *)
(*    exception raised by Handler.emit propagate to the logging call.      *)
(***************************************************************************)
EXTENDS Integers, Sequences, FiniteSets, TLC

VARIABLES
    env,          \* os.environ as seen by telemetry.py
    dbUp,         \* environment: is the MongoDB server reachable right now
    _client,      \* telemetry._client, the cached MongoClient (None at import)
    constructed,  \* number of MongoClient objects constructed so far
    pc,           \* per thread: position inside _mongo_client / configure_telemetry
    ret,          \* per thread: what its last _mongo_client call returned
    telemetry,    \* what configure_telemetry installed
    last          \* observation of the last completed handler call

vars == <<env, dbUp, _client, constructed, pc, ret, telemetry, last>>

----------------------------------------------------------------------------
(* Bounds *)

NumThreads == 2      \* threads that may call _mongo_client (thread 0 is the importer)
MaxArticles == 3     \* most articles the upstream API answers with
MaxBatch == 2        \* longest span batch handed to the span exporter
MaxResources == 2    \* resources per metrics snapshot
MaxScopes == 2       \* scopes per resource
MaxMetrics == 2      \* metrics per scope
MaxPoints == 1       \* data points per metric

(* Program constants *)

PerPageMin == 1
PerPageMax == 30
BadGateway == 502
TraceIdWidth == 32
SpanIdWidth == 16

----------------------------------------------------------------------------
(* Environment variables and os.getenv *)

Unset == "<unset>"

Truthy(v) == v \notin {Unset, ""}

getenv(e, name, default) == IF e[name] = Unset THEN default ELSE e[name]

(* the discrete settings: none, host and auth source only, a user name
   without its password, all of them *)
DiscreteSettings ==
    {[MONGO_HOST |-> Unset, MONGO_USERNAME |-> Unset,
      MONGO_PASSWORD |-> Unset, MONGO_AUTH_SOURCE |-> Unset],
     [MONGO_HOST |-> "mongo.internal", MONGO_USERNAME |-> Unset,
      MONGO_PASSWORD |-> Unset, MONGO_AUTH_SOURCE |-> "admin"],
     [MONGO_HOST |-> Unset, MONGO_USERNAME |-> "user",
      MONGO_PASSWORD |-> "", MONGO_AUTH_SOURCE |-> Unset],
     [MONGO_HOST |-> "mongo.internal", MONGO_USERNAME |-> "user",
      MONGO_PASSWORD |-> "secret", MONGO_AUTH_SOURCE |-> "admin"]}

Envs ==
    {[MONGO_URI |-> u, MONGO_HOST |-> d.MONGO_HOST,
      MONGO_USERNAME |-> d.MONGO_USERNAME, MONGO_PASSWORD |-> d.MONGO_PASSWORD,
      MONGO_AUTH_SOURCE |-> d.MONGO_AUTH_SOURCE] :
        u \in {Unset, "", "mongodb://db:27017"}, d \in DiscreteSettings}

----------------------------------------------------------------------------
(* _mongo_client: the arguments it hands to MongoClient *)

None == [id |-> 0, mode |-> "none", kwargs |-> {}]

UriArgs(e) == {<<"host", e.MONGO_URI>>, <<"tz_aware", "True">>}

DiscreteArgs(e) ==
    {<<"host", getenv(e, "MONGO_HOST", "localhost")>>,
     <<"port", "27017">>,
     <<"tz_aware", "True">>}
    \cup (IF Truthy(e.MONGO_USERNAME) /\ Truthy(e.MONGO_PASSWORD)
          THEN {<<"username", e.MONGO_USERNAME>>, <<"password", e.MONGO_PASSWORD>>}
          ELSE {})
    \cup (IF Truthy(e.MONGO_AUTH_SOURCE)
          THEN {<<"authSource", e.MONGO_AUTH_SOURCE>>}
          ELSE {})

UsesUri(e) == Truthy(e.MONGO_URI)

ClientArgs(e) ==
    IF UsesUri(e)
    THEN [mode |-> "uri", kwargs |-> UriArgs(e)]
    ELSE [mode |-> "discrete", kwargs |-> DiscreteArgs(e)]

Threads == 0 .. (NumThreads - 1)
Main == 0

(* line 38: the unsynchronised test of the cached client *)
ClientIsCached(c) == c # None

(* lines 38-39: `if _client is not None: return _client` *)
MongoClientCheck(t) ==
    /\ pc[t] = "idle"
    /\ IF ClientIsCached(_client)
       THEN /\ pc' = [pc EXCEPT ![t] = "returned"]
            /\ ret' = [ret EXCEPT ![t] = _client]
       ELSE /\ pc' = [pc EXCEPT ![t] = "construct"]
            /\ ret' = ret
    /\ UNCHANGED <<env, dbUp, _client, constructed, telemetry, last>>

(* lines 41-60: build the arguments, construct the client, cache and return it.
   The constructor either returns a (not yet connected) client or raises a
   PyMongoError for a configuration problem; _client is assigned only after it
   returned. *)
MongoClientConstruct(t) ==
    /\ pc[t] = "construct"
    /\ \E raises \in BOOLEAN :
         IF raises
         THEN /\ pc' = [pc EXCEPT ![t] = "raised"]
              /\ UNCHANGED <<_client, constructed, ret>>
         ELSE LET c == [id |-> constructed + 1,
                        mode |-> ClientArgs(env).mode,
                        kwargs |-> ClientArgs(env).kwargs]
              IN /\ _client' = c
                 /\ constructed' = constructed + 1
                 /\ ret' = [ret EXCEPT ![t] = c]
                 /\ pc' = [pc EXCEPT ![t] = "returned"]
    /\ UNCHANGED <<env, dbUp, telemetry, last>>

(* a caller other than configure_telemetry gets its result and may call again *)
MongoClientReturn(t) ==
    /\ t # Main
    /\ pc[t] \in {"returned", "raised"}
    /\ pc' = [pc EXCEPT ![t] = "idle"]
    /\ ret' = [ret EXCEPT ![t] = None]
    /\ UNCHANGED <<env, dbUp, _client, constructed, telemetry, last>>

----------------------------------------------------------------------------
(* configure_telemetry, after its call of _mongo_database() came back *)

NotConfigured ==
    [mode |-> "none", mongoHandler |-> FALSE, spanExporter |-> FALSE,
     metricReader |-> FALSE, dbUpAtStartup |-> FALSE, errorsLogged |-> 0]

(* lines 257-265: the fallback, bare providers and one logged error *)
Fallback(up) ==
    [mode |-> "noop", mongoHandler |-> FALSE, spanExporter |-> FALSE,
     metricReader |-> FALSE, dbUpAtStartup |-> up, errorsLogged |-> 1]

(* lines 267-287: log handler, batch span processor and periodic metric reader *)
Installed(up) ==
    [mode |-> "mongo", mongoHandler |-> TRUE, spanExporter |-> TRUE,
     metricReader |-> TRUE, dbUpAtStartup |-> up, errorsLogged |-> 0]

ConfigureTelemetry ==
    /\ telemetry.mode = "none"
    /\ pc[Main] \in {"returned", "raised"}
    /\ telemetry' = IF pc[Main] = "raised" THEN Fallback(dbUp) ELSE Installed(dbUp)
    /\ pc' = [pc EXCEPT ![Main] = "done"]
    /\ last' = [op |-> "configure", events |-> <<>>, raised |-> "None"]
    /\ UNCHANGED <<env, dbUp, _client, constructed, ret>>

Serving == telemetry.mode # "none"

Idle == [op |-> "none", events |-> <<>>, raised |-> "None"]

(* no call is being observed *)
Quiet == last.op \in {"none", "configure"}

(* the observed call has returned to its caller: the web framework, the SDK's
   export thread or the logging call site *)
Return ==
    /\ Serving
    /\ ~Quiet
    /\ last' = Idle
    /\ UNCHANGED <<env, dbUp, _client, constructed, pc, ret, telemetry>>

(* the environment: the database server goes away or comes back *)
DatabaseChange ==
    /\ dbUp' = ~dbUp
    /\ UNCHANGED <<env, _client, constructed, pc, ret, telemetry, last>>

----------------------------------------------------------------------------
(* pymongo writes *)

(* what the server can answer to one write *)
DbOutcomes(up) == IF up THEN {"ok", "PyMongoError"} ELSE {"PyMongoError"}

(* insert_one / insert_many: server selection and the write itself fail with a
   PyMongoError; a document BSON cannot encode fails with InvalidDocument *)
Insert(encodable, db) ==
    IF db = "PyMongoError" THEN "PyMongoError"
    ELSE IF ~encodable THEN "InvalidDocument"
    ELSE "ok"

----------------------------------------------------------------------------
(* Log records and MongoLoggingHandler.emit *)

(* record.args as the kinds of its elements *)
LogRecords ==
    [name : {"app.main"}, levelname : {"INFO", "ERROR"},
     args : {<<>>, <<"str">>, <<"exception">>}, exc_info : BOOLEAN]

(* the record built by logger.exception("... %s", exc) *)
ExceptionRecord ==
    [name |-> "app", levelname |-> "ERROR", args |-> <<"exception">>, exc_info |-> TRUE]

(* lines 76-90; line 88: "args": list(record.args), the arguments as they
   are; every other field is a string, a number or None *)
LogDocument(record) ==
    [logger |-> record.name,
     level |-> record.levelname,
     args |-> record.args,
     exception |-> IF record.exc_info THEN "traceback text" ELSE "None"]

BsonEncodable(doc) == \A i \in 1 .. Len(doc.args) : doc.args[i] # "exception"

(* emit with the except clause dropped: the PyMongoError reaches the caller *)
emitReraise(record, db) ==
    LET outcome == Insert(BsonEncodable(LogDocument(record)), db)
    IN IF outcome = "ok"
       THEN [events |-> <<"logs.insert_one">>, raised |-> "None"]
       ELSE [events |-> <<"logs.insert_one">>, raised |-> outcome]

(* lines 73-93 *)
emit(record, db) ==
    LET outcome == Insert(BsonEncodable(LogDocument(record)), db)
    IN IF outcome = "PyMongoError"
       THEN [events |-> <<"logs.insert_one", "handleError">>, raised |-> "None"]
       ELSE IF outcome = "ok"
       THEN [events |-> <<"logs.insert_one">>, raised |-> "None"]
       ELSE [events |-> <<"logs.insert_one">>, raised |-> outcome]

(* a logging call: the root logger hands the record to the Mongo handler
   when _configure_logging attached one (line 99) *)
Log(record, db) ==
    IF telemetry.mongoHandler
    THEN emit(record, db)
    ELSE [events |-> <<>>, raised |-> "None"]

(* some code of the process logs a record at or above the handler's level *)
Emit ==
    /\ Serving
    /\ Quiet
    /\ telemetry.mongoHandler
    /\ \E record \in LogRecords, db \in DbOutcomes(dbUp) :
         LET r == emit(record, db)
         IN last' = [op |-> "emit", record |-> record, db |-> db,
                     events |-> r.events, raised |-> r.raised]
    /\ UNCHANGED <<env, dbUp, _client, constructed, pc, ret, telemetry>>

----------------------------------------------------------------------------
(* main.py: the HTTP endpoints *)

Tags == {"technology", "python"}
PerPageInputs == {PerPageMin - 1, PerPageMin, PerPageMin + 1, PerPageMax, PerPageMax + 1}
ErrorStatuses == {404, 500}

(* what the DEV.to API does with the one outbound call *)
Upstream ==
    [kind : {"ok"}, n : 0 .. MaxArticles, status : {200}]
    \cup [kind : {"status"}, n : {0}, status : ErrorStatuses]
    \cup [kind : {"transport", "badbody"}, n : {0}, status : {0}]

(* the i-th article of the upstream answer *)
UpstreamArticle(i) ==
    [id |-> i, title |-> "title", url |-> "url", description |-> "description",
     published_at |-> "2024-01-01", tags |-> "tags", body_markdown |-> "text",
     user |-> [name |-> "name", username |-> "username", user_id |-> i]]

UpstreamJson(n) == [i \in 1 .. n |-> UpstreamArticle(i)]

(* lines 58-71: the reduced projection of one article *)
Projection(a) ==
    [id |-> a.id, title |-> a.title, url |-> a.url, description |-> a.description,
     published_at |-> a.published_at, tags |-> a.tags,
     user |-> [name |-> a.user.name, username |-> a.user.username]]

(* lines 56-73: one projection per element of response.json() *)
Articles(json) == [i \in 1 .. Len(json) |-> Projection(json[i])]

(* the upper bound off by one: le=31 *)
ValidateOffByOne(per_page) == per_page >= PerPageMin /\ per_page <= PerPageMax + 1

(* line 89: Query(5, ge=1, le=30), enforced by the framework before the handler runs *)
Validate(per_page) == per_page >= PerPageMin /\ per_page <= PerPageMax

NoBody == [source |-> "", tag |-> "", count |-> 0, articles |-> <<>>]

(* line 105 *)
NewsBody(tag, articles) ==
    [source |-> "DEV.to", tag |-> tag, count |-> Len(articles), articles |-> articles]

(* an exception nobody handles becomes the framework's 500 answer *)
ServerError(events, exc) ==
    [status |-> 500, detail |-> "Internal Server Error", body |-> NoBody,
     events |-> events, raised |-> exc]

(* lines 96-101: log the failure, then answer with the given status *)
UpstreamFailure(events, status, detail, db) ==
    LET l == Log(ExceptionRecord, db)
        ev == events \o <<"logger.exception">> \o l.events
    IN IF l.raised # "None"
       THEN ServerError(ev, l.raised)
       ELSE [status |-> status, detail |-> detail, body |-> NoBody,
             events |-> ev, raised |-> "None"]

(* lines 43-54 and 92-105: the handler body, entered after validation *)
get_news(tag, per_page, up, db) ==
    LET ev == <<"request_counter.add", "upstream.get">>
    IN CASE up.kind = "status" ->
              UpstreamFailure(ev, up.status, "Upstream error from DEV.to API", db)
         [] up.kind = "transport" ->
              UpstreamFailure(ev, BadGateway, "Unable to reach DEV.to API", db)
         [] up.kind = "badbody" ->
              ServerError(ev, "ValueError")
         [] OTHER ->
              LET articles == Articles(UpstreamJson(up.n))
              IN [status |-> 200, detail |-> "", body |-> NewsBody(tag, articles),
                  events |-> ev \o <<"article_counter.add">>, raised |-> "None"]

(* GET /news *)
GetNews ==
    /\ Serving
    /\ Quiet
    /\ \E tag \in Tags, per_page \in PerPageInputs, up \in Upstream,
          db \in DbOutcomes(dbUp) :
         LET r == IF Validate(per_page)
                  THEN get_news(tag, per_page, up, db)
                  ELSE [status |-> 422, detail |-> "validation error",
                        body |-> NoBody, events |-> <<>>, raised |-> "None"]
         IN last' = [op |-> "news", tag |-> tag, per_page |-> per_page,
                     up |-> up, status |-> r.status,
                     detail |-> r.detail, body |-> r.body,
                     events |-> r.events, raised |-> r.raised]
    /\ UNCHANGED <<env, dbUp, _client, constructed, pc, ret, telemetry>>

(* lines 76-79: GET /health *)
Health ==
    /\ Serving
    /\ Quiet
    /\ last' = [op |-> "health", status |-> 200, body |-> [status |-> "ok"],
                events |-> <<>>, raised |-> "None"]
    /\ UNCHANGED <<env, dbUp, _client, constructed, pc, ret, telemetry>>

----------------------------------------------------------------------------------------------------------------------------------------
(* Trace and span identifiers.  A 128-bit trace id is 8 limbs of 16 bits, a
   64-bit span id 4 limbs, most significant limb first. *)

LimbBase == 65536
TraceLimbs == 8
SpanLimbs == 4

HexChars == <<"0", "1", "2", "3", "4", "5", "6", "7",
              "8", "9", "a", "b", "c", "d", "e", "f">>
UpperHexChars == <<"0", "1", "2", "3", "4", "5", "6", "7",
                   "8", "9", "A", "B", "C", "D", "E", "F">>

(* the four hex digits of one limb *)
Hex4(l) ==
    <<HexChars[(l \div 4096) + 1], HexChars[((l \div 256) % 16) + 1],
      HexChars[((l \div 16) % 16) + 1], HexChars[(l % 16) + 1]>>

RECURSIVE AllDigits(_)
AllDigits(n) == IF n = <<>> THEN <<>> ELSE Hex4(Head(n)) \o AllDigits(Tail(n))

RECURSIVE StripZeros(_)
StripZeros(s) == IF Len(s) > 1 /\ Head(s) = "0" THEN StripZeros(Tail(s)) ELSE s

(* format(n, "x"): the shortest lowercase hex numeral of n *)
HexNumeral(n) == StripZeros(AllDigits(n))

(* the "0<width>" part of the format spec: zero fill on the left up to a
   minimum width, longer numerals are not cut *)
ZeroFill(s, width) ==
    IF Len(s) >= width THEN s
    ELSE [i \in 1 .. width |-> IF i <= width - Len(s) THEN "0" ELSE s[i - (width - Len(s))]]

(* the format spec without its zero fill: format(n, "x") *)
formatNoFill(n, width) == HexNumeral(n)

(* format(n, "032x") and format(n, "016x") *)
format(n, width) == ZeroFill(HexNumeral(n), width)

(* int(s, 16) as limbs; digits of either case are accepted *)
DigitValue(ch) ==
    CHOOSE d \in 0 .. 15 : HexChars[d + 1] = ch \/ UpperHexChars[d + 1] = ch

IsLowerHex(s) == \A i \in 1 .. Len(s) : \E d \in 1 .. 16 : HexChars[d] = s[i]

ParseHex(s, limbs) ==
    LET p == ZeroFill(s, 4 * limbs)
    IN [k \in 1 .. limbs |->
          DigitValue(p[4 * k - 3]) * 4096 + DigitValue(p[4 * k - 2]) * 256
          + DigitValue(p[4 * k - 1]) * 16 + DigitValue(p[4 * k])]

(* sample identifiers: `lead` zero limbs, then the limb v repeated *)
LimbSamples == {1, 2748, 43981, LimbBase - 1}

Limbs(lead, v, n) == [i \in 1 .. n |-> IF i <= lead THEN 0 ELSE v]

TraceIds == {Limbs(lead, v, TraceLimbs) : lead \in 0 .. TraceLimbs, v \in LimbSamples}
SpanIds == {Limbs(lead, v, SpanLimbs) : lead \in 0 .. SpanLimbs, v \in LimbSamples}

----------------------------------------------------------------------------
(* MongoSpanExporter *)

SpanKindName == <<"INTERNAL", "SERVER", "CLIENT", "PRODUCER", "CONSUMER">>
StatusCodeName == <<"UNSET", "OK", "ERROR">>

NoParent == <<>>

(* attribute values: a scalar, or a tuple / list of scalars *)
AttributeSamples ==
    {[k \in {} |-> 0],
     [k \in {"http.method"} |-> [type |-> "scalar", value |-> <<"GET">>]],
     [k \in {"http.method", "ids"} |->
        IF k = "ids" THEN [type |-> "tuple", value |-> <<"1", "2">>]
        ELSE [type |-> "scalar", value |-> <<"GET">>]]}

(* lines 107-114: tuples become lists, everything else is kept *)
_serialize_attributes(attributes) ==
    [k \in DOMAIN attributes |->
        IF attributes[k].type \in {"list", "tuple"}
        THEN [type |-> "list", value |-> attributes[k].value]
        ELSE attributes[k]]

MkSpan(t, s, p, links, kind, attrs) ==
    [name |-> "devto.fetch_articles", trace_id |-> t, span_id |-> s,
     trace_state |-> "", parent |-> p, kind |-> kind,
     start_time |-> 1, end_time |-> 2,
     status_code |-> 0, status_description |-> "None",
     attributes |-> attrs,
     events |-> IF DOMAIN attrs = {} THEN <<>>
                ELSE <<[name |-> "exception", timestamp |-> 2, attributes |-> attrs]>>,
     links |-> links]

(* lines 147-154 *)
EventDocument(event) ==
    [name |-> event.name, timestamp |-> event.timestamp,
     attributes |-> _serialize_attributes(event.attributes)]

(* lines 155-164 *)
LinkDocument(link) ==
    [context |-> [trace_id |-> format(link.trace_id, TraceIdWidth),
                  span_id |-> format(link.span_id, SpanIdWidth)],
     attributes |-> _serialize_attributes(link.attributes)]

(* lines 126-166 *)
SpanDocument(span) ==
    [name |-> span.name,
     context |-> [trace_id |-> format(span.trace_id, TraceIdWidth),
                  span_id |-> format(span.span_id, SpanIdWidth),
                  trace_state |-> span.trace_state],
     parent_span_id |-> IF span.parent = NoParent THEN <<>>
                        ELSE format(span.parent, SpanIdWidth),
     kind |-> SpanKindName[span.kind + 1],
     start_time |-> span.start_time,
     end_time |-> span.end_time,
     status |-> [status_code |-> StatusCodeName[span.status_code + 1],
                 description |-> span.status_description],
     attributes |-> _serialize_attributes(span.attributes),
     events |-> [i \in 1 .. Len(span.events) |-> EventDocument(span.events[i])],
     links |-> [i \in 1 .. Len(span.links) |-> LinkDocument(span.links[i])]]

(* lines 171-175, 230-234: the write failed with a PyMongoError; log it and
   report FAILURE, unless the logging call itself raises *)
ExportFailure(events, db) ==
    LET l == Log(ExceptionRecord, db)
        ev == events \o <<"logger.exception">> \o l.events
    IN IF l.raised # "None"
       THEN [result |-> "none", events |-> ev, raised |-> l.raised]
       ELSE [result |-> "FAILURE", events |-> ev, raised |-> "None"]

(* lines 123-177; db1 is the server's answer to insert_many, db2 its answer
   to the log handler's insert_one *)
SpanExporter_export(spans, db1, db2) ==
    LET documents == [i \in 1 .. Len(spans) |-> SpanDocument(spans[i])]
    IN IF documents = <<>>
       THEN [documents |-> documents, result |-> "SUCCESS", events |-> <<>>,
             raised |-> "None"]
       ELSE IF Insert(TRUE, db1) = "PyMongoError"
       THEN LET f == ExportFailure(<<"traces.insert_many">>, db2)
            IN [documents |-> documents, result |-> f.result, events |-> f.events,
                raised |-> f.raised]
       ELSE [documents |-> documents, result |-> "SUCCESS",
             events |-> <<"traces.insert_many">>, raised |-> "None"]

(* batches the batch span processor hands over: every batch of a few plain
   spans, and single spans over the whole range of identifiers *)
PlainSpans ==
    {MkSpan(Limbs(0, 43981, TraceLimbs), Limbs(3, k, SpanLimbs), NoParent, <<>>, k, a) :
        k \in 1 .. 2, a \in {[x \in {} |-> 0]}}

AttributedSpans ==
    {MkSpan(Limbs(1, 2748, TraceLimbs), Limbs(0, 1, SpanLimbs), NoParent, <<>>, 0, a) :
        a \in AttributeSamples}

WideSpan(lead, v, hasParent, hasLink) ==
    MkSpan(Limbs(lead, v, TraceLimbs),
           Limbs(lead % (SpanLimbs + 1), v, SpanLimbs),
           IF hasParent THEN Limbs((lead + 1) % (SpanLimbs + 1), v, SpanLimbs)
           ELSE NoParent,
           IF hasLink
           THEN <<[trace_id |-> Limbs(TraceLimbs - lead, v, TraceLimbs),
                   span_id |-> Limbs(SpanLimbs - (lead % (SpanLimbs + 1)), v, SpanLimbs),
                   attributes |-> [x \in {} |-> 0]]>>
           ELSE <<>>,
           2, [x \in {} |-> 0])

WideSpans ==
    {WideSpan(lead, v, hasParent, hasLink) :
        lead \in 0 .. TraceLimbs, v \in LimbSamples,
        hasParent \in BOOLEAN, hasLink \in BOOLEAN}

SeqsUpTo(S, n) == UNION {[1 .. k -> S] : k \in 0 .. n}

SpanBatches ==
    SeqsUpTo(PlainSpans, MaxBatch) \cup SeqsUpTo(WideSpans \cup AttributedSpans, 1)

SpanExport ==
    /\ telemetry.spanExporter
    /\ Quiet
    /\ \E spans \in SpanBatches, db1 \in DbOutcomes(dbUp), db2 \in DbOutcomes(dbUp) :
         LET r == SpanExporter_export(spans, db1, db2)
         IN last' = [op |-> "span_export", spans |-> spans, db |-> db1,
                     documents |-> r.documents, result |-> r.result,
                     events |-> r.events, raised |-> r.raised]
    /\ UNCHANGED <<env, dbUp, _client, constructed, pc, ret, telemetry>>

----------------------------------------------------------------------------
(* MongoMetricExporter *)

(* line 210: the payload attributes copied when the point has them *)
PayloadNames == {"value", "count", "sum", "min", "max", "last", "bucket_counts", "boundaries"}

Scalar(v) == [type |-> "scalar", value |-> <<v>>]

NumberDataPoint(v) ==
    [attributes |-> [k \in {"tag"} |-> Scalar("technology")],
     start_time_unix_nano |-> Scalar(1), time_unix_nano |-> Scalar(2),
     value |-> Scalar(v)]

HistogramDataPoint(v) ==
    [attributes |-> [k \in {} |-> 0],
     start_time_unix_nano |-> Scalar(1), time_unix_nano |-> Scalar(2),
     count |-> Scalar(v), sum |-> Scalar(v), min |-> Scalar(0), max |-> Scalar(v),
     bucket_counts |-> [type |-> "tuple", value |-> <<0, v>>],
     explicit_bounds |-> [type |-> "tuple", value |-> <<5>>]]

(* lines 205-214: the three fixed keys (None when the point lacks them), then
   every payload attribute the point has, sequences copied into lists *)
PointPayload(point) ==
    [k \in {"time_unix_nano", "start_time_unix_nano", "attributes"}
            \cup (PayloadNames \cap DOMAIN point) |->
        IF k = "attributes"
        THEN IF k \in DOMAIN point
             THEN [type |-> "dict", value |-> <<_serialize_attributes(point[k])>>]
             ELSE [type |-> "dict", value |-> <<>>]
        ELSE IF k \notin DOMAIN point THEN [type |-> "None", value |-> <<>>]
        ELSE IF point[k].type \in {"list", "tuple"}
        THEN [type |-> "list", value |-> point[k].value]
        ELSE point[k]]

(* lines 203-214 *)
Datapoints(metric) ==
    [n \in 1 .. Len(metric.data_points) |-> PointPayload(metric.data_points[n])]

(* lines 216-225 *)
MetricDocument(resource_attributes, scope_info, metric) ==
    [name |-> metric.name, description |-> metric.description, unit |-> metric.unit,
     resource |-> resource_attributes, instrumentation_scope |-> scope_info,
     data |-> Datapoints(metric)]

(* lines 202-225: the loop over the metrics of one scope *)
ScopeDocuments(resource_attributes, scope_metrics) ==
    LET scope_info == [name |-> scope_metrics.scope.name,
                       version |-> scope_metrics.scope.version]
    IN [k \in 1 .. Len(scope_metrics.metrics) |->
          MetricDocument(resource_attributes, scope_info, scope_metrics.metrics[k])]

RECURSIVE Concat(_)
Concat(ss) == IF ss = <<>> THEN <<>> ELSE Head(ss) \o Concat(Tail(ss))

(* lines 195-225: the loop over the scopes of one resource *)
ResourceDocuments(resource_metrics) ==
    LET resource_attributes == _serialize_attributes(resource_metrics.resource.attributes)
    IN Concat([j \in 1 .. Len(resource_metrics.scope_metrics) |->
                 ScopeDocuments(resource_attributes, resource_metrics.scope_metrics[j])])

(* lines 193-225 *)
MetricDocuments(metrics_data) ==
    Concat([i \in 1 .. Len(metrics_data) |-> ResourceDocuments(metrics_data[i])])

(* lines 187-236 *)
MetricExporter_export(metrics_data, db1, db2) ==
    LET documents == MetricDocuments(metrics_data)
    IN IF documents = <<>>
       THEN [documents |-> documents, result |-> "SUCCESS", events |-> <<>>,
             raised |-> "None"]
       ELSE IF Insert(TRUE, db1) = "PyMongoError"
       THEN LET f == ExportFailure(<<"metrics.insert_many">>, db2)
            IN [documents |-> documents, result |-> f.result, events |-> f.events,
                raised |-> f.raised]
       ELSE [documents |-> documents, result |-> "SUCCESS",
             events |-> <<"metrics.insert_many">>, raised |-> "None"]

(* lines 238-239 *)
force_flush == TRUE

(* snapshots the periodic reader hands over.  The four seeds fix how many
   resources there are and, unevenly, how many scopes each resource, metrics
   each scope and points each metric has. *)
SnapshotPoint(i, j, k, n) ==
    IF (i + j + k + n) % 2 = 0 THEN NumberDataPoint(n) ELSE HistogramDataPoint(n)

SnapshotMetric(i, j, k, np) ==
    [name |-> <<"metric", i, j, k>>, description |-> "Number of calls",
     unit |-> "1",
     data_points |-> [n \in 1 .. ((np + i + j + k) % (MaxPoints + 1)) |->
                        SnapshotPoint(i, j, k, n)]]

SnapshotScope(i, j, nm, np) ==
    [scope |-> [name |-> <<"scope", i, j>>, version |-> <<"v", j>>],
     metrics |-> [k \in 1 .. ((nm + i + j) % (MaxMetrics + 1)) |->
                    SnapshotMetric(i, j, k, np)]]

SnapshotResource(i, ns, nm, np) ==
    [resource |->
        [attributes |->
            [a \in {"service.name", "service.instance.id"} |->
                IF a = "service.name" THEN Scalar("devto-news-service")
                ELSE Scalar(i)]],
     scope_metrics |-> [j \in 1 .. ((ns + i) % (MaxScopes + 1)) |->
                          SnapshotScope(i, j, nm, np)]]

Snapshot(nr, ns, nm, np) == [i \in 1 .. nr |-> SnapshotResource(i, ns, nm, np)]

MetricExport ==
    /\ telemetry.metricReader
    /\ Quiet
    /\ \E nr \in 0 .. MaxResources, ns \in 0 .. MaxScopes, nm \in 0 .. MaxMetrics,
          np \in 0 .. MaxPoints, db1 \in DbOutcomes(dbUp), db2 \in DbOutcomes(dbUp) :
         LET metrics_data == Snapshot(nr, ns, nm, np)
             r == MetricExporter_export(metrics_data, db1, db2)
         IN last' = [op |-> "metric_export", metrics_data |-> metrics_data,
                     db |-> db1, documents |-> r.documents, result |-> r.result,
                     events |-> r.events, raised |-> r.raised]
    /\ UNCHANGED <<env, dbUp, _client, constructed, pc, ret, telemetry>>

ForceFlush ==
    /\ telemetry.metricReader
    /\ Quiet
    /\ last' = [op |-> "force_flush", result |-> force_flush, events |-> <<>>,
                raised |-> "None"]
    /\ UNCHANGED <<env, dbUp, _client, constructed, pc, ret, telemetry>>

----------------
(* The service: import (configure_telemetry), then requests and log calls *)

Init ==
    /\ env \in Envs
    /\ dbUp \in BOOLEAN
    /\ _client = None
    /\ constructed = 0
    /\ pc = [t \in Threads |-> "idle"]
    /\ ret = [t \in Threads |-> None]
    /\ telemetry = NotConfigured
    /\ last = Idle

Next ==
    \/ MongoClientCheck(Main)
    \/ MongoClientConstruct(Main)
    \/ ConfigureTelemetry
    \/ DatabaseChange
    \/ Emit
    \/ GetNews
    \/ Health
    \/ SpanExport
    \/ MetricExport
    \/ ForceFlush
    \/ Return

Spec == Init /\ [][Next]_vars

(* _mongo_client under concurrent callers *)
NextClient ==
    \/ \E t \in Threads : MongoClientCheck(t)
    \/ \E t \in Threads : MongoClientConstruct(t)
    \/ \E t \in Threads : MongoClientReturn(t)
    \/ ConfigureTelemetry
    \/ DatabaseChange

SpecClient == Init /\ [][NextClient]_vars

TypeOK ==
    /\ env \in Envs
    /\ dbUp \in BOOLEAN
    /\ constructed \in 0 .. NumThreads
    /\ pc \in [Threads -> {"idle", "construct", "returned", "raised", "done"}]
    /\ telemetry.mode \in {"none", "noop", "mongo"}

----------------------------------------------------------------------------
(* Properties *)

Count(events, e) == Cardinality({i \in 1 .. Len(events) : events[i] = e})

Before(events, a, b) ==
    \E i, j \in 1 .. Len(events) : i < j /\ events[i] = a /\ events[j] = b

(* C1: every call of MongoSpanExporter.export: an empty batch gives SUCCESS
   and no insert_many; a non-empty batch whose insert_many raises a database
   error gives FAILURE, one logged error, one insert_many and no exception
   leaving export; a non-empty batch whose insert_many succeeds gives SUCCESS
   after one insert_many. *)
C1_SpanExportContract ==
    last.op = "span_export" =>
      /\ last.spans = <<>> =>
           /\ last.result = "SUCCESS"
           /\ Count(last.events, "traces.insert_many") = 0
      /\ (last.spans # <<>> /\ last.db = "PyMongoError") =>
           /\ last.result = "FAILURE"
           /\ Count(last.events, "logger.exception") = 1
           /\ Count(last.events, "traces.insert_many") = 1
           /\ last.raised = "None"
      /\ (last.spans # <<>> /\ last.db = "ok") =>
           /\ last.result = "SUCCESS"
           /\ Count(last.events, "traces.insert_many") = 1

(* C2: whenever the insert of a log record fails with a database error, emit
   raises nothing, calls handleError exactly once and has attempted the insert
   exactly once. *)
C2_EmitAbsorbsDatabaseError ==
    (last.op = "emit" /\ last.db = "PyMongoError") =>
      /\ last.raised = "None"
      /\ Count(last.events, "handleError") = 1
      /\ Count(last.events, "logs.insert_one") = 1

C2_Witness ==
    /\ last.op = "emit"
    /\ last.db = "PyMongoError"
    /\ last.events = <<"logs.insert_one", "handleError">>

(* C3: when the database is unreachable at startup, configure_telemetry
   installs the providers that discard everything: no Mongo log handler, no
   span exporter and no metric reader, for as long as the process runs;
   /health answers 200. *)
C3_UnreachableMeansNoop ==
    (Serving /\ ~telemetry.dbUpAtStartup) =>
      /\ telemetry.mode = "noop"
      /\ ~telemetry.mongoHandler
      /\ ~telemetry.spanExporter
      /\ ~telemetry.metricReader
      /\ (last.op = "health" => last.status = 200)

(* C4: no metric document handed to insert_many has an empty "data" list. *)
C4_NoEmptyDatapointList ==
    (last.op = "metric_export" /\ Count(last.events, "metrics.insert_many") > 0) =>
      \A d \in 1 .. Len(last.documents) : last.documents[d].data # <<>>

(* C5: every successful /news answer has count = len(articles) and
   len(articles) <= per_page. *)
C5_CountAndPageSize ==
    (last.op = "news" /\ last.status = 200) =>
      /\ last.body.count = Len(last.body.articles)
      /\ Len(last.body.articles) <= last.per_page

(* C6: a validated /news request answers with the upstream status and the
   generic detail when the upstream API answered with an error status, and
   with 502 when the outbound call failed in transport, whatever happens in
   the telemetry sinks. *)
C6_UpstreamErrorStatus ==
    (last.op = "news" /\ Validate(last.per_page)) =>
      /\ last.up.kind = "status" =>
           /\ last.status = last.up.status
           /\ last.detail = "Upstream error from DEV.to API"
      /\ last.up.kind = "transport" => last.status = BadGateway

(* C7: a /news request with per_page outside [1,30] is answered 422 without
   an outbound call and without touching the request counter; one with
   per_page inside [1,30] makes exactly one outbound call, after the request
   counter was incremented. *)
C7_ValidationBeforeOutboundCall ==
    last.op = "news" =>
      /\ (last.per_page < PerPageMin \/ last.per_page > PerPageMax) =>
           /\ last.status = 422
           /\ Count(last.events, "upstream.get") = 0
           /\ Count(last.events, "request_counter.add") = 0
      /\ (last.per_page >= PerPageMin /\ last.per_page <= PerPageMax) =>
           /\ Count(last.events, "upstream.get") = 1
           /\ Count(last.events, "request_counter.add") = 1
           /\ Before(last.events, "request_counter.add", "upstream.get")

C7_Witness ==
    /\ last.op = "news"
    /\ last.per_page = PerPageMax + 1
    /\ last.status = 422
    /\ last.events = <<>>

(* C8: in every exported span document trace_id is a lowercase hex string of
   exactly 32 characters and span_id, parent_span_id and the link span ids
   lowercase hex strings of exactly 16 characters, each decoding back to the
   number it was made from. *)
IsId(s, width, limbs, n) ==
    /\ Len(s) = width
    /\ IsLowerHex(s)
    /\ ParseHex(s, limbs) = n

C8_HexIdentifiers ==
    last.op = "span_export" =>
      \A i \in 1 .. Len(last.documents) :
        LET doc == last.documents[i]
            span == last.spans[i]
        IN /\ IsId(doc.context.trace_id, 32, TraceLimbs, span.trace_id)
           /\ IsId(doc.context.span_id, 16, SpanLimbs, span.span_id)
           /\ span.parent # NoParent =>
                IsId(doc.parent_span_id, 16, SpanLimbs, span.parent)
           /\ Len(doc.links) = Len(span.links)
           /\ \A k \in 1 .. Len(doc.links) :
                /\ IsId(doc.links[k].context.trace_id, 32, TraceLimbs,
                        span.links[k].trace_id)
                /\ IsId(doc.links[k].context.span_id, 16, SpanLimbs,
                        span.links[k].span_id)

C8_Witness ==
    /\ last.op = "span_export"
    /\ Len(last.documents) = 1
    /\ last.spans[1].trace_id[1] = 0
    /\ last.spans[1].trace_id[TraceLimbs] = LimbBase - 1
    /\ last.documents[1].context.trace_id[1] = "0"
    /\ last.documents[1].context.trace_id[TraceIdWidth] = "f"
    /\ last.spans[1].parent # NoParent
    /\ last.spans[1].links # <<>>

(* C9: at most one MongoClient is ever constructed and all calls of
   _mongo_client that returned, on whatever thread, returned that one client;
   with MONGO_URI set the client is built from the URI alone. *)
C9_SingleClient ==
    /\ constructed <= 1
    /\ \A t, u \in Threads :
         (pc[t] \in {"returned", "done"} /\ pc[u] \in {"returned", "done"}
          /\ ret[t] # None /\ ret[u] # None) => ret[t] = ret[u]
    /\ (_client # None /\ env.MONGO_URI \notin {Unset, ""}) =>
         _client.kwargs = {<<"host", env.MONGO_URI>>, <<"tz_aware", "True">>}

(* C10: MongoMetricExporter.export builds one document per (resource, scope,
   metric) in traversal order, each with its own resource attributes and scope
   name and version, and hands them to one insert_many; with nothing to write
   it returns SUCCESS without an insert; when insert_many raises a database
   error it returns FAILURE and raises nothing; force_flush returns true. *)
Triples(metrics_data) ==
    Concat([i \in 1 .. Len(metrics_data) |->
        Concat([j \in 1 .. Len(metrics_data[i].scope_metrics) |->
            [k \in 1 .. Len(metrics_data[i].scope_metrics[j].metrics) |->
                <<i, j, k>>]])])

C10_MetricExportContract ==
    /\ last.op = "force_flush" => last.result = TRUE
    /\ last.op = "metric_export" =>
         LET triples == Triples(last.metrics_data)
             docs == last.documents
         IN /\ Len(docs) = Len(triples)
            /\ \A d \in 1 .. Len(docs) :
                 LET rm == last.metrics_data[triples[d][1]]
                     sm == rm.scope_metrics[triples[d][2]]
                     m == sm.metrics[triples[d][3]]
                 IN /\ docs[d].name = m.name
                    /\ docs[d].resource = rm.resource.attributes
                    /\ docs[d].instrumentation_scope.name = sm.scope.name
                    /\ docs[d].instrumentation_scope.version = sm.scope.version
            /\ docs = <<>> =>
                 /\ last.result = "SUCCESS"
                 /\ Count(last.events, "metrics.insert_many") = 0
            /\ docs # <<>> => Count(last.events, "metrics.insert_many") = 1
            /\ (docs # <<>> /\ last.db = "PyMongoError") =>
                 /\ last.result = "FAILURE"
                 /\ last.raised = "None"
            /\ (docs # <<>> /\ last.db = "ok") => last.result = "SUCCESS"

====
